---- MODULE Spec2Model ----
(***************************************************************************)
(* Model of Value_Screening.py: a linear script that asks the BQL service  *)
(* for the member count of an index, derives a threshold rank from it,     *)
(* builds a filtered universe from three factor ranks, requests the three  *)
(* raw factors for that filtered universe and concatenates the answer      *)
(* into one table.  The BQL service is the environment: it owns the index  *)
(* membership, the factor data, the rank vectors and the cache.            *)
(***************************************************************************)
EXTENDS Integers, Naturals, Sequences, FiniteSets, TLC

VARIABLES
    pc,                   \* position of the script
    members,              \* service: live membership of 'UKX Index'
    cachedMembers,        \* service: membership snapshot served in cached mode
    changes,              \* number of membership changes so far
    factor_values,        \* service: raw factor value of every identifier
    requestLog,           \* requests handed to bq.execute, in order
    num_of_members,       \* line 43
    threshold_percentage, \* line 46, in hundredths (80 stands for 0.80)
    threshold_rank,       \* line 47
    screened_univ,        \* universe the service evaluated for the screening request
    factor_ranks,         \* the three rank vectors the service computed (line 55)
    filtered_univ,        \* line 69
    bq_res,               \* lines 42 and 85, the list of SingleItemResponse
    bq_result_df,         \* line 88
    prev_percentage,      \* threshold percentage before the last re-screening
    prev_filtered,        \* filtered universe before the last re-screening
    failure               \* the bq.execute call that raised, or "none"

vars == <<pc, members, cachedMembers, changes, factor_values, requestLog, failure,
          num_of_members, threshold_percentage, threshold_rank, screened_univ,
          factor_ranks, filtered_univ, bq_res, bq_result_df,
          prev_percentage, prev_filtered>>

----------------------------------------------------------------------------
(* Bounds *)

MaxIds == 6           \* identifiers the index can hold
MaxChanges == 1       \* membership changes during one run
MaxSeed == 1          \* factor data sets 0..MaxSeed
MaxMembers == 100     \* largest member count fed to the threshold computation
PctStep == 20         \* spacing of the percentages tried when re-screening

(* Program constants *)

ThresholdPercentage == 80   \* threshold_percentage = 0.80
NumValues == 4              \* raw factor values 1..NumValues-1, 0 is missing (NaN)

IDs == 1..MaxIds
Undefined == 0 - 1          \* a name the script has not assigned yet
NaN == 0                    \* a missing value or a missing rank

\* the three factors, in the order of factor_ranks and of items_ordered_dict
Labels == <<"AVE_ROE_2Y", "PX_BOOK_VALUE", "CASH_PER_ASSET">>
FactorIdx == 1..3

----------------------------------------------------------------------------
(* threshold_rank = int(threshold_percentage * num_of_members)             *)
(* The product is an IEEE-754 double product of the double nearest to the  *)
(* decimal literal pct/100 and the (exact) member count; int() truncates.  *)

RECURSIVE Pow2(_)
Pow2(n) == IF n = 0 THEN 1 ELSE 2 * Pow2(n - 1)

RECURSIVE Pow2Mod100(_)
Pow2Mod100(n) == IF n = 0 THEN 1 ELSE (2 * Pow2Mod100(n - 1)) % 100

\* j with pct/100 in [2^-(j+1), 2^-j): the double's mantissa is scaled by 2^(53+j)
RECURSIVE BinExp(_)
BinExp(pct) == IF pct >= 50 THEN 0 ELSE 1 + BinExp(2 * pct)

\* m with k in (2^m, 2^(m+1)], plus one (so that k = 1 gives 0)
RECURSIVE CeilLog2(_)
CeilLog2(k) == IF k <= 1 THEN 0 ELSE 1 + CeilLog2((k + 1) \div 2)

\* 100 * 2^(53+j) * (double(pct/100) - pct/100): the literal's rounding error,
\* in -49..49; negative when the double lies below the decimal literal
LiteralError(pct) ==
    LET res == (pct * Pow2Mod100(53 + BinExp(pct))) % 100
    IN  IF res < 50 THEN 0 - res ELSE 100 - res

\* round(pct/100 * n) in place of int(): half and above go up
RoundOfProduct(pct, n) == (pct * n + 50) \div 100

\* int(double(pct/100) * n) for pct in 0..100 and n >= 0
IntOfProduct(pct, n) ==
    LET F == (pct * n) \div 100
        r == (pct * n) % 100
    IN  IF r # 0 \/ pct = 0 \/ pct = 100 \/ n = 0 THEN F
        ELSE IF LiteralError(pct) >= 0 THEN F
        \* the exact product lies just below the integer F: the double
        \* product rounds to F (ties to even) or to the double before F
        ELSE IF 2 * (0 - LiteralError(pct)) * n
                  <= 100 * Pow2(BinExp(pct) + CeilLog2(F))
             THEN F ELSE F - 1

----------------------------------------------------------------------------
(* The BQL service *)

\* position of id in the universe U (identifiers in ascending order)
Pos(U, id) == Cardinality({x \in U : x <= id})

\* the ranks 1..|U| handed out in universe order, rotated by k
Shifted(U, k) == [id \in U |-> ((Pos(U, id) - 1 + k) % Cardinality(U)) + 1]

\* the same ranks handed out in descending universe order
Reversed(U, k) == [id \in U |-> Cardinality(U) + 1 - Shifted(U, k)[id]]

\* rank vectors the service may compute for one factor over U: every rotation
\* of 1..|U| in either direction, all identifiers tied at rank 1, and the first
\* identifier unranked (its factor value missing) with the others ranked 1..|U|-1
RankVectors(U) ==
    {Shifted(U, k) : k \in 0..(Cardinality(U) - 1)}
        \cup {Reversed(U, k) : k \in 0..(Cardinality(U) - 1)}
        \cup {[id \in U |-> 1]}
        \cup {[id \in U |-> IF Pos(U, id) = 1 THEN NaN ELSE Pos(U, id) - 1]}

RankTriples(U) == [FactorIdx -> RankVectors(U)]

\* raw factor data sets held by the service
FactorData(s) == [f \in FactorIdx |-> [id \in IDs |-> (f * id + s) % NumValues]]

----------------------------------------------------------------------------
(* The script's expressions *)

\* bq.execute hands one request to the service
execute_twice(log, request) == Append(Append(log, request), request)

execute(log, request) == Append(log, request)

\* an exception raised by bq.execute is caught nowhere: the script ends
Swallowed(stage) == stage

Unhandled(stage) == "aborted"

\* factor_rank <= threshold_rank (a missing rank compares false)
criteria_ge(ranks, thr, f, id) == ranks[f][id] # NaN /\ ranks[f][id] >= thr

criteria(ranks, thr, f, id) == ranks[f][id] # NaN /\ ranks[f][id] <= thr

or_(a, b) == a \/ b

and_(a, b) == a /\ b

\* criteria_final = criteria[0]; for i in 1..2: and_(criteria_final, criteria[i])
criteria_final(ranks, thr, id) ==
    and_(and_(criteria(ranks, thr, 1, id), criteria(ranks, thr, 2, id)),
         criteria(ranks, thr, 3, id))

\* bq.univ.filter(bq_univ, criteria_final)
filter(univ, ranks, thr) == {id \in univ : criteria_final(ranks, thr, id)}

\* the answer to bql.Request(filtered_univ, items_ordered_dict): one item per
\* dictionary entry, in insertion order, each a column over the filtered universe
Response(fu, data) ==
    [i \in FactorIdx |-> [name |-> Labels[i], df |-> [id \in fu |-> data[i][id]]]]

\* the answer to bql.Request(bq_univ, {'COUNT': id_count}): one item named
\* COUNT whose single row, for the whole group, holds the number of members
CountResponse(n) == <<[name |-> "COUNT", df |-> ("ALL" :> n)]>>

NoTable == [defined |-> FALSE, columns |-> << >>, index |-> {}, cell |-> << >>]

\* the columns in alphabetical order of their labels
concat_sorted(res) ==
    LET order == <<1, 3, 2>>
        index == UNION {DOMAIN res[i].df : i \in DOMAIN res}
    IN  [defined |-> TRUE,
         columns |-> [i \in DOMAIN res |-> res[order[i]].name],
         index   |-> index,
         cell    |-> [id \in index |-> [i \in DOMAIN res |->
                        IF id \in DOMAIN res[order[i]].df
                        THEN res[order[i]].df[id] ELSE NaN]]]

\* pd.concat([sir.df()[sir.name] for sir in bq_res], axis=1): one column per
\* item in list order, one row per identifier of any item (outer join)
concat(res) ==
    LET index == UNION {DOMAIN res[i].df : i \in DOMAIN res}
    IN  [defined |-> TRUE,
         columns |-> [i \in DOMAIN res |-> res[i].name],
         index   |-> index,
         cell    |-> [id \in index |-> [i \in DOMAIN res |->
                        IF id \in DOMAIN res[i].df THEN res[i].df[id] ELSE NaN]]]

----------------------------------------------------------------------------
(* One run of the script *)

Init ==
    /\ pc = "start"
    /\ members \in {1..n : n \in 0..MaxIds}
    /\ cachedMembers = members
    /\ changes = 0
    /\ factor_values \in {FactorData(s) : s \in 0..MaxSeed}
    /\ requestLog = << >>
    /\ failure = "none"
    /\ num_of_members = Undefined
    /\ threshold_percentage = ThresholdPercentage
    /\ threshold_rank = Undefined
    /\ screened_univ = {}
    /\ factor_ranks = << >>
    /\ filtered_univ = {}
    /\ bq_res = << >>
    /\ bq_result_df = NoTable
    /\ prev_percentage = ThresholdPercentage
    /\ prev_filtered = {}

\* lines 41-43: the COUNT request, answered from the live membership
ExecuteCount ==
    /\ pc = "start"
    /\ requestLog' = execute(requestLog, "COUNT")
    /\ bq_res' = CountResponse(Cardinality(members))
    /\ num_of_members' = bq_res'[1].df["ALL"]
    /\ pc' = "counted"
    /\ UNCHANGED <<members, cachedMembers, changes, factor_values, failure,
                   threshold_percentage, threshold_rank, screened_univ,
                   factor_ranks, filtered_univ, bq_result_df,
                   prev_percentage, prev_filtered>>

\* line 42 raises
ExecuteCountFails ==
    /\ pc = "start"
    /\ requestLog' = execute(requestLog, "COUNT")
    /\ failure' = "COUNT"
    /\ pc' = Unhandled("start")
    /\ UNCHANGED <<members, cachedMembers, changes, factor_values,
                   num_of_members, threshold_percentage, threshold_rank,
                   screened_univ, factor_ranks, filtered_univ, bq_res,
                   bq_result_df, prev_percentage, prev_filtered>>

\* lines 46-82: the threshold rank, and the request built around it
ComputeThreshold ==
    /\ pc = "counted"
    /\ threshold_rank' = IntOfProduct(threshold_percentage, num_of_members)
    /\ pc' = "built"
    /\ UNCHANGED <<members, cachedMembers, changes, factor_values, requestLog,
                   failure, num_of_members, threshold_percentage, screened_univ,
                   factor_ranks, filtered_univ, bq_res, bq_result_df,
                   prev_percentage, prev_filtered>>

\* line 85: the screening request, answered in cached mode: the service
\* evaluates the universe, ranks it on each factor, filters it and returns the
\* raw factors of the identifiers that pass
ExecuteScreen ==
    /\ pc = "built"
    /\ requestLog' = execute(requestLog, "SCREEN")
    /\ screened_univ' = cachedMembers
    /\ \E ranks \in RankTriples(cachedMembers) :
          /\ factor_ranks' = ranks
          /\ filtered_univ' = filter(cachedMembers, ranks, threshold_rank)
          /\ bq_res' = Response(filter(cachedMembers, ranks, threshold_rank),
                                factor_values)
    /\ pc' = "executed"
    /\ UNCHANGED <<members, cachedMembers, changes, factor_values, failure,
                   num_of_members, threshold_percentage, threshold_rank,
                   bq_result_df, prev_percentage, prev_filtered>>

\* line 85 raises
ExecuteScreenFails ==
    /\ pc = "built"
    /\ requestLog' = execute(requestLog, "SCREEN")
    /\ failure' = "SCREEN"
    /\ pc' = Unhandled("built")
    /\ UNCHANGED <<members, cachedMembers, changes, factor_values,
                   num_of_members, threshold_percentage, threshold_rank,
                   screened_univ, factor_ranks, filtered_univ, bq_res,
                   bq_result_df, prev_percentage, prev_filtered>>

\* line 88
Assemble ==
    /\ pc = "executed"
    /\ bq_result_df' = concat(bq_res)
    /\ pc' = "done"
    /\ UNCHANGED <<members, cachedMembers, changes, factor_values, requestLog,
                   failure, num_of_members, threshold_percentage, threshold_rank,
                   screened_univ, factor_ranks, filtered_univ, bq_res,
                   prev_percentage, prev_filtered>>

InProgress == pc \in {"start", "counted", "built"}

\* the index gains or loses a member at the service while the script runs
\* (identifiers join in ascending order and the newest member is the one to leave)
MembershipChange ==
    /\ InProgress
    /\ changes < MaxChanges
    /\ \E n \in {Cardinality(members) - 1, Cardinality(members) + 1} :
          /\ n \in 0..MaxIds
          /\ members' = 1..n
    /\ changes' = changes + 1
    /\ UNCHANGED <<pc, cachedMembers, factor_values, requestLog, failure,
                   num_of_members, threshold_percentage, threshold_rank,
                   screened_univ, factor_ranks, filtered_univ, bq_res,
                   bq_result_df, prev_percentage, prev_filtered>>

\* the service brings its cached snapshot up to date
RefreshCache ==
    /\ InProgress
    /\ cachedMembers # members
    /\ cachedMembers' = members
    /\ UNCHANGED <<pc, members, changes, factor_values, requestLog, failure,
                   num_of_members, threshold_percentage, threshold_rank,
                   screened_univ, factor_ranks, filtered_univ, bq_res,
                   bq_result_df, prev_percentage, prev_filtered>>

Next ==
    \/ ExecuteCount
    \/ ExecuteCountFails
    \/ ComputeThreshold
    \/ ExecuteScreen
    \/ ExecuteScreenFails
    \/ Assemble
    \/ MembershipChange
    \/ RefreshCache

Spec == Init /\ [][Next]_vars

----------------------------------------------------------------------------
(* The threshold computation on its own: lines 46-47 applied to any member *)
(* count the COUNT request may return                                      *)

InitThreshold ==
    /\ pc = "counted"
    /\ num_of_members \in 0..MaxMembers
    /\ threshold_percentage = ThresholdPercentage
    /\ members = {}
    /\ cachedMembers = {}
    /\ changes = 0
    /\ factor_values = FactorData(0)
    /\ requestLog = <<"COUNT">>
    /\ failure = "none"
    /\ threshold_rank = Undefined
    /\ screened_univ = {}
    /\ factor_ranks = << >>
    /\ filtered_univ = {}
    /\ bq_res = CountResponse(num_of_members)
    /\ bq_result_df = NoTable
    /\ prev_percentage = threshold_percentage
    /\ prev_filtered = {}

NextThreshold == ComputeThreshold

SpecThreshold == InitThreshold /\ [][NextThreshold]_vars

----------------------------------------------------------------------------
(* The filter on its own: lines 47-69 applied to one universe and one set  *)
(* of rank vectors under varying threshold percentages                     *)

Percentages == {p \in 0..100 : p % PctStep = 0}

InitRescreen ==
    /\ pc = "screening"
    /\ screened_univ \in {1..n : n \in 0..MaxIds}
    /\ members = screened_univ
    /\ cachedMembers = screened_univ
    /\ changes = 0
    /\ factor_values = FactorData(0)
    /\ requestLog = execute(<< >>, "COUNT")
    /\ failure = "none"
    /\ num_of_members = Cardinality(screened_univ)
    /\ threshold_percentage \in Percentages
    /\ threshold_rank = IntOfProduct(threshold_percentage, num_of_members)
    /\ factor_ranks \in RankTriples(screened_univ)
    /\ filtered_univ = filter(screened_univ, factor_ranks, threshold_rank)
    /\ bq_res = CountResponse(num_of_members)
    /\ bq_result_df = NoTable
    /\ prev_percentage = threshold_percentage
    /\ prev_filtered = filtered_univ

\* the same universe and ranks screened again under percentage p
Rescreen(p) ==
    /\ pc = "screening"
    /\ p # threshold_percentage
    /\ prev_percentage' = threshold_percentage
    /\ prev_filtered' = filtered_univ
    /\ threshold_percentage' = p
    /\ threshold_rank' = IntOfProduct(p, num_of_members)
    /\ filtered_univ' = filter(screened_univ, factor_ranks,
                               IntOfProduct(p, num_of_members))
    /\ UNCHANGED <<pc, members, cachedMembers, changes, factor_values,
                   requestLog, failure, num_of_members, screened_univ,
                   factor_ranks, bq_res, bq_result_df>>

NextRescreen == \E p \in Percentages : Rescreen(p)

SpecRescreen == InitRescreen /\ [][NextRescreen]_vars

----------------------------------------------------------------------------
(* Properties *)

Screened == pc \in {"executed", "done"}

\* rank <= ThresholdRank, for a rank that exists
RankPasses(f, id) == factor_ranks[f][id] # NaN /\ factor_ranks[f][id] <= threshold_rank

PassSet(f) == {id \in screened_univ : RankPasses(f, id)}

ExcludedBy(f) == screened_univ \ PassSet(f)

\* C1: an identifier is in the filtered universe iff its rank is <= the
\* threshold rank on all three factors; the filtered universe is the
\* intersection of the three pass sets and has |universe| minus the number of
\* distinct identifiers excluded by some factor members.
C1_FilterIsIntersection ==
    Screened =>
        /\ \A id \in IDs :
              id \in filtered_univ <=>
                 (id \in screened_univ /\ \A f \in FactorIdx : RankPasses(f, id))
        /\ filtered_univ = PassSet(1) \cap PassSet(2) \cap PassSet(3)
        /\ Cardinality(filtered_univ) =
              Cardinality(screened_univ)
                - Cardinality(ExcludedBy(1) \cup ExcludedBy(2) \cup ExcludedBy(3))

\* five identifiers, threshold rank 4, each factor excludes one identifier and
\* the three excluded identifiers differ: two remain
C1_Witness ==
    /\ pc = "done"
    /\ Cardinality(screened_univ) = 5
    /\ threshold_rank = 4
    /\ \A f \in FactorIdx : Cardinality(ExcludedBy(f)) = 1
    /\ Cardinality(ExcludedBy(1) \cup ExcludedBy(2) \cup ExcludedBy(3)) = 3
    /\ Cardinality(filtered_univ) = 2

Floor(pct, n) == (pct * n) \div 100

\* C2: for every member count N the computed threshold_rank equals
\* floor(p * N) for the script's threshold percentage p (N = 5, p = 0.80 gives
\* 4); the same expression evaluated at p = 1.0 gives N and at p = 0.0 gives 0.
C2_AlwaysFloor ==
    pc = "built" =>
        /\ threshold_rank = Floor(threshold_percentage, num_of_members)
        /\ (threshold_percentage = 80 /\ num_of_members = 5) => threshold_rank = 4
        /\ IntOfProduct(100, num_of_members) = num_of_members
        /\ IntOfProduct(0, num_of_members) = 0

\* five members under the script's percentage: threshold rank 4
C2_Witness ==
    /\ pc = "built"
    /\ threshold_percentage = 80
    /\ num_of_members = 5
    /\ threshold_rank = 4

\* C3: for a fixed universe and fixed rank vectors, screening under a
\* percentage at least as high gives a superset of the filtered universe, and
\* under a percentage at most as high a subset.
C3_Monotonic ==
    /\ prev_percentage <= threshold_percentage => prev_filtered \subseteq filtered_univ
    /\ threshold_percentage <= prev_percentage => filtered_univ \subseteq prev_filtered

\* a re-screening under a higher percentage that let more identifiers through
C3_Witness ==
    /\ pc = "screening"
    /\ prev_percentage < threshold_percentage
    /\ prev_filtered # filtered_univ
    /\ prev_filtered # {}
    /\ filtered_univ # screened_univ

IsPermutation(f) ==
    {factor_ranks[f][id] : id \in screened_univ} = 1..Cardinality(screened_univ)

\* C4: each single-factor criterion excludes exactly the bottom 10% of the
\* universe by that factor's rank (stated for factors ranked 1..N without ties
\* over the universe that was counted: rank above 0.9 * N).
C4_ExcludesWorstTenPercent ==
    (Screened /\ num_of_members = Cardinality(screened_univ)) =>
        \A f \in FactorIdx :
            IsPermutation(f) =>
                ExcludedBy(f) = {id \in screened_univ :
                    10 * factor_ranks[f][id] > 9 * Cardinality(screened_univ)}

\* C5: the result table has one row per identifier of the filtered universe
\* and no other, its cells are the raw factor values, and its columns are
\* AVE_ROE_2Y, PX_BOOK_VALUE, CASH_PER_ASSET in that order.
C5_ResultTable ==
    pc = "done" =>
        /\ bq_result_df.defined
        /\ bq_result_df.index = filtered_univ
        /\ bq_result_df.columns = <<"AVE_ROE_2Y", "PX_BOOK_VALUE", "CASH_PER_ASSET">>
        /\ \A id \in bq_result_df.index :
              bq_result_df.cell[id] =
                 <<factor_values[1][id], factor_values[2][id], factor_values[3][id]>>

\* a table of some but not all identifiers in which a cell differs from the rank
C5_Witness ==
    /\ pc = "done"
    /\ filtered_univ # {}
    /\ filtered_univ # screened_univ
    /\ \E id \in filtered_univ : \E f \in FactorIdx :
          /\ bq_result_df.cell[id][f] # factor_ranks[f][id]
          /\ bq_result_df.cell[id][f] # NaN

\* C8, as stated: a run issues exactly one request to the service.
C8_OneRequest == pc = "done" => Len(requestLog) = 1

\* C8 amended: a run issues exactly two requests, the COUNT request and then
\* the screening request, and no other.
C8_TwoRequests ==
    /\ Len(requestLog) <= 2
    /\ pc = "start" => requestLog = << >>
    /\ pc \in {"counted", "built"} => requestLog = <<"COUNT">>
    /\ Screened => requestLog = <<"COUNT", "SCREEN">>

C8_Witness == pc = "done" /\ bq_result_df.defined /\ Len(requestLog) = 2

\* C9: the threshold rank is floor(0.80 * size of the universe that is ranked
\* and filtered), whatever the service does between the steps of the run.
C9_ThresholdOfScreenedUniverse ==
    Screened =>
        threshold_rank = Floor(ThresholdPercentage, Cardinality(screened_univ))

\* C10: once an external call has failed the run is over: the call was issued
\* once, nothing after it ran (bq_res still holds what it held before the
\* call: nothing, or the COUNT response), and there is no result table.
C10_FailureAborts ==
    failure # "none" =>
        /\ pc = "aborted"
        /\ ~bq_result_df.defined
        /\ filtered_univ = {}
        /\ failure = "COUNT" =>
              /\ requestLog = <<"COUNT">>
              /\ bq_res = << >>
              /\ num_of_members = Undefined
              /\ threshold_rank = Undefined
        /\ failure = "SCREEN" =>
              /\ requestLog = <<"COUNT", "SCREEN">>
              /\ bq_res = CountResponse(num_of_members)

\* the screening request failed after the COUNT request had succeeded
C10_Witness ==
    /\ failure = "SCREEN"
    /\ pc = "aborted"
    /\ num_of_members > 0
    /\ threshold_rank > 0

====
